---- MODULE Spec2Model ----
(***************************************************************************)
(* The investor classification engine of src/back.py: classify_investor   *)
(* and the threshold tables it uses, run by one or several callers.       *)
(*                                                                         *)
(* Numbers.  A Python float that holds a score is an integer count of     *)
(* 1/Pt of a score point (Pt = 600: hundredths, thirds and halves of a    *)
(* point are exact).  A float that holds a ratio is an exact fraction     *)
(* [n, d] with d > 0.  WEIGHTS holds percents (25 is 0.25).               *)
(* emergency_fund_months counts half months (8 is 4.0 months) and         *)
(* return_expectation counts tenths of a percent (100 is 10.0).           *)
(* An Optional field is <<>> (None) or <<v>>.                             *)
(***************************************************************************)
EXTENDS Integers, Sequences, FiniteSets, TLC

VARIABLES data, pc, frame, result, WEIGHTS

vars == <<data, pc, frame, result, WEIGHTS>>

\* ------------------------------------------------------------- bounds
\* number of classify_investor calls in flight in SpecConc
NumCalls == 2
\* risk_attitude and investment_knowledge inputs range over -1..MaxLikertInput
MaxLikertInput == 6

Calls == 1..NumCalls

\* ------------------------------------------------------- representation
Pt == 600

None == <<>>
Some(v) == <<v>>
Val(x) == x[1]

\* Python `x or dflt` on an Optional[int] / Optional[float]: None and 0 are falsy
Or(x, dflt) == IF x = None \/ Val(x) = 0 THEN dflt ELSE Val(x)
\* Python truthiness of an Optional number
Truthy(x) == x # None /\ Val(x) # 0
\* Python truthiness of an Optional Literal string or an Optional model object
Present(x) == x # None

\* a / b as an exact fraction with a positive denominator (b # 0)
Rat(a, b) == IF b < 0 THEN [n |-> -a, d |-> -b] ELSE [n |-> a, d |-> b]

\* Python round(): nearest integer multiple of 1/d, ties to even
RoundHalfEven(n, d) ==
  LET q == n \div d
      r == n % d
  IN  IF 2 * r < d THEN q
      ELSE IF 2 * r > d THEN q + 1
      ELSE IF q % 2 = 0 THEN q ELSE q + 1

\* round(x, 2) of a score
round2(x) == RoundHalfEven(x, Pt \div 100) * (Pt \div 100)

\* x * WEIGHTS[k], the weight a percent
Weighted(x, w) == (x * w) \div 100

\* ------------------------------------------------------------- WEIGHTS
Weights0 ==
  [age |-> 25, financial_stability |-> 30, risk_tolerance |-> 20,
   time_horizon |-> 15, return_expectation |-> 10]

\* ------------------------------------------------------ helper functions
get_age_score_zero(age) ==
  IF age <= 25 THEN 90 * Pt
  ELSE IF age <= 35 THEN 75 * Pt
  ELSE IF age <= 45 THEN 60 * Pt
  ELSE IF age <= 55 THEN 40 * Pt
  ELSE IF age <= 65 THEN 20 * Pt
  ELSE 0

get_age_score(age) ==
  IF age <= 25 THEN 90 * Pt
  ELSE IF age <= 35 THEN 75 * Pt
  ELSE IF age <= 45 THEN 60 * Pt
  ELSE IF age <= 55 THEN 40 * Pt
  ELSE IF age <= 65 THEN 20 * Pt
  ELSE 10 * Pt

get_income_score_from_threshold(income) ==
  IF income < 20000 THEN 30 * Pt
  ELSE IF income < 50000 THEN 40 * Pt
  ELSE IF income < 100000 THEN 50 * Pt
  ELSE IF income < 500000 THEN 60 * Pt
  ELSE IF income < 1000000 THEN 70 * Pt
  ELSE IF income < 1500000 THEN 80 * Pt
  ELSE IF income < 2400000 THEN 85 * Pt
  ELSE IF income < 5000000 THEN 90 * Pt
  ELSE IF income < 7500000 THEN 95 * Pt
  ELSE IF income < 10000000 THEN 97 * Pt
  ELSE 100 * Pt

get_emergency_score_wrong(ratio) ==
  IF 10 * ratio.n > 14 * ratio.d THEN 90 * Pt
  ELSE IF ratio.n > ratio.d THEN 70 * Pt
  ELSE IF 4 * ratio.n > 3 * ratio.d THEN 60 * Pt
  ELSE IF 2 * ratio.n > ratio.d THEN 60 * Pt
  ELSE 30 * Pt

\* ratio > 1.4, > 1, > 0.75, > 0.5
get_emergency_score_from_ratio(ratio) ==
  IF 10 * ratio.n > 14 * ratio.d THEN 90 * Pt
  ELSE IF ratio.n > ratio.d THEN 70 * Pt
  ELSE IF 4 * ratio.n > 3 * ratio.d THEN 60 * Pt
  ELSE IF 2 * ratio.n > ratio.d THEN 50 * Pt
  ELSE 30 * Pt

\* emi_ratio < 5, < 15, < 25, < 50
get_debt_score_from_ratio(emi_ratio) ==
  IF emi_ratio.n < 5 * emi_ratio.d THEN 90 * Pt
  ELSE IF emi_ratio.n < 15 * emi_ratio.d THEN 75 * Pt
  ELSE IF emi_ratio.n < 25 * emi_ratio.d THEN 60 * Pt
  ELSE IF emi_ratio.n < 50 * emi_ratio.d THEN 45 * Pt
  ELSE 30 * Pt

\* mapping.get(risk_tolerance, 60.0)
get_risk_tolerance_score(risk_tolerance) ==
  IF risk_tolerance = "conservative" THEN 30 * Pt
  ELSE IF risk_tolerance = "moderate" THEN 60 * Pt
  ELSE IF risk_tolerance = "aggressive" THEN 90 * Pt
  ELSE 60 * Pt

get_time_horizon_score(time_horizon) ==
  IF time_horizon <= 3 THEN 35 * Pt
  ELSE IF time_horizon <= 7 THEN 65 * Pt
  ELSE 90 * Pt

\* return_expectation in tenths of a percent: < 8, < 12, < 15
get_return_expectation_score(return_expectation) ==
  IF return_expectation < 80 THEN 35 * Pt
  ELSE IF return_expectation < 120 THEN 60 * Pt
  ELSE IF return_expectation < 150 THEN 75 * Pt
  ELSE 90 * Pt

get_insurance_score_zero(insurance_amount) ==
  IF insurance_amount = None THEN None
  ELSE IF Val(insurance_amount) = 0 THEN Some(0)
  ELSE IF Val(insurance_amount) < 500000 THEN Some(40 * Pt)
  ELSE IF Val(insurance_amount) < 2500000 THEN Some(60 * Pt)
  ELSE IF Val(insurance_amount) < 10000000 THEN Some(75 * Pt)
  ELSE IF Val(insurance_amount) < 50000000 THEN Some(90 * Pt)
  ELSE Some(100 * Pt)

get_insurance_score(insurance_amount) ==
  IF insurance_amount = None THEN None
  ELSE IF Val(insurance_amount) = 0 THEN Some(30 * Pt)
  ELSE IF Val(insurance_amount) < 500000 THEN Some(40 * Pt)
  ELSE IF Val(insurance_amount) < 2500000 THEN Some(60 * Pt)
  ELSE IF Val(insurance_amount) < 10000000 THEN Some(75 * Pt)
  ELSE IF Val(insurance_amount) < 50000000 THEN Some(90 * Pt)
  ELSE Some(100 * Pt)

get_dependants_score(dependants) ==
  IF dependants = None THEN None
  ELSE IF Val(dependants) = 0 THEN Some(90 * Pt)
  ELSE IF Val(dependants) <= 2 THEN Some(75 * Pt)
  ELSE IF Val(dependants) <= 5 THEN Some(60 * Pt)
  ELSE IF Val(dependants) <= 8 THEN Some(45 * Pt)
  ELSE Some(30 * Pt)

\* likert.get(v, 60.0)
likert(v) ==
  IF v = 1 THEN 30 * Pt
  ELSE IF v = 2 THEN 45 * Pt
  ELSE IF v = 3 THEN 60 * Pt
  ELSE IF v = 4 THEN 75 * Pt
  ELSE IF v = 5 THEN 90 * Pt
  ELSE 60 * Pt

\* dd_map.get(v, 60.0)
dd_map(v) ==
  IF v = "sell" THEN 30 * Pt
  ELSE IF v = "wait" THEN 60 * Pt
  ELSE IF v = "buy_more" THEN 90 * Pt
  ELSE 60 * Pt

\* one entry of the factors list
Factor(name, subscore, weight, weighted) ==
  [name |-> name, subscore |-> subscore, weight |-> weight, weighted |-> weighted]

\* ---------------------------------------------------- classify_investor
\* the local variables of one call, before line 116 has run
Frame0 ==
  [factors |-> <<>>, score |-> 0, profile |-> "", recommendation |-> "",
   age_sub |-> 0, debt_score |-> 0, income_score |-> 0, emergency_score |-> 0,
   financial_sub |-> 0, risk_subs |-> <<>>, risk_tolerance_sub |-> 0,
   time_sub |-> 0, return_sub |-> 0, insurance_sub |-> None,
   dependants_sub |-> None]

\* "# Age"
AgeSection(f, d, W) ==
  LET age_sub == get_age_score(Or(d.age, 30))
  IN  [f EXCEPT
         !.age_sub = age_sub,
         !.factors = Append(<<>>, Factor("age", age_sub, Some(W.age),
                                         Some(round2(Weighted(age_sub, W.age))))),
         !.score = 0 + Weighted(age_sub, W.age)]

monthly_income(d) == Or(d.monthly_income, 1)
monthly_emi(d) == Or(d.monthly_emi, 0)
monthly_expenses(d) == Or(d.monthly_expenses, 0)

\* (monthly_emi / monthly_income * 100) if monthly_income else 100.0
emi_ratio(d) ==
  IF monthly_income(d) # 0
  THEN Rat(monthly_emi(d) * 100, monthly_income(d))
  ELSE Rat(100, 1)

UseAmountUnguarded(d) == d.emergency_fund_amount # None

\* the guard of the amount branch of the emergency ratio
UseAmount(d) == d.emergency_fund_amount # None /\ monthly_expenses(d) > 0

\* the if/elif that sets emergency_ratio (0.0 when neither branch is taken)
emergency_ratio(d) ==
  IF UseAmount(d)
  THEN IF 6 * monthly_expenses(d) # 0
       THEN Rat(Val(d.emergency_fund_amount), 6 * monthly_expenses(d))
       ELSE Rat(0, 1)
  ELSE IF d.emergency_fund_months # None
  THEN Rat(Val(d.emergency_fund_months), 12)
  ELSE Rat(0, 1)

\* ZeroDivisionError in "# Financial Stability": a division is reached with a
\* zero divisor (monthly_emi / monthly_income under `if monthly_income`,
\* emergency_fund_amount / (6 * monthly_expenses) under its guard)
FinancialRaises(d) ==
  \/ monthly_income(d) # 0 /\ monthly_income(d) = 0
  \/ UseAmount(d) /\ 6 * monthly_expenses(d) = 0

FinancialSection(f, d, W) ==
  LET debt_score == get_debt_score_from_ratio(emi_ratio(d))
      income_score == get_income_score_from_threshold(monthly_income(d))
      emergency_score == get_emergency_score_from_ratio(emergency_ratio(d))
      financial_sub == (income_score + emergency_score + debt_score) \div 3
  IN  [f EXCEPT
         !.debt_score = debt_score,
         !.income_score = income_score,
         !.emergency_score = emergency_score,
         !.financial_sub = financial_sub,
         !.factors = Append(@, Factor("financial_stability", round2(financial_sub),
                                      Some(W.financial_stability),
                                      Some(round2(Weighted(financial_sub, W.financial_stability))))),
         !.score = @ + Weighted(financial_sub, W.financial_stability)]

\* the list risk_subs of the else branch
risk_subs(d) ==
  (IF Truthy(d.risk_attitude) THEN <<likert(Val(d.risk_attitude))>> ELSE <<>>)
  \o (IF Truthy(d.investment_knowledge) THEN <<likert(Val(d.investment_knowledge))>> ELSE <<>>)
  \o (IF Present(d.drawdown_reaction) THEN <<dd_map(Val(d.drawdown_reaction))>> ELSE <<>>)

RECURSIVE sum(_)
sum(s) == IF s = <<>> THEN 0 ELSE Head(s) + sum(Tail(s))

risk_mean_of_three(d) ==
  IF Present(d.risk_tolerance)
  THEN get_risk_tolerance_score(Val(d.risk_tolerance))
  ELSE IF risk_subs(d) # <<>> THEN sum(risk_subs(d)) \div 3 ELSE 60 * Pt

risk_tolerance_sub(d) ==
  IF Present(d.risk_tolerance)
  THEN get_risk_tolerance_score(Val(d.risk_tolerance))
  ELSE IF risk_subs(d) # <<>>
       THEN sum(risk_subs(d)) \div Len(risk_subs(d))
       ELSE 60 * Pt

\* sum(risk_subs)/len(risk_subs) is evaluated with an empty list
RiskRaises(d) ==
  ~Present(d.risk_tolerance) /\ risk_subs(d) # <<>> /\ Len(risk_subs(d)) = 0

RiskSection(f, d, W) ==
  LET sub == risk_tolerance_sub(d)
  IN  [f EXCEPT
         !.risk_subs = IF Present(d.risk_tolerance) THEN <<>> ELSE risk_subs(d),
         !.risk_tolerance_sub = sub,
         !.factors = Append(@, Factor("risk_tolerance", round2(sub),
                                      Some(W.risk_tolerance),
                                      Some(round2(Weighted(sub, W.risk_tolerance))))),
         !.score = @ + Weighted(sub, W.risk_tolerance)]

TimeSection(f, d, W) ==
  LET time_sub == get_time_horizon_score(Or(d.time_horizon, 5))
  IN  [f EXCEPT
         !.time_sub = time_sub,
         !.factors = Append(@, Factor("time_horizon", time_sub, Some(W.time_horizon),
                                      Some(round2(Weighted(time_sub, W.time_horizon))))),
         !.score = @ + Weighted(time_sub, W.time_horizon)]

ReturnSection(f, d, W) ==
  LET return_sub == get_return_expectation_score(Or(d.return_expectation, 100))
  IN  [f EXCEPT
         !.return_sub = return_sub,
         !.factors = Append(@, Factor("return_expectation", return_sub,
                                      Some(W.return_expectation),
                                      Some(round2(Weighted(return_sub, W.return_expectation))))),
         !.score = @ + Weighted(return_sub, W.return_expectation)]

Max(a, b) == IF a >= b THEN a ELSE b
Min(a, b) == IF a <= b THEN a ELSE b

ProfileOfStrict(score) ==
  IF score < 25 * Pt THEN "Ultra-Conservative"
  ELSE IF score < 40 * Pt THEN "Conservative"
  ELSE IF score < 60 * Pt THEN "Moderate"
  ELSE IF score < 75 * Pt THEN "Moderate-Aggressive"
  ELSE IF score < 90 * Pt THEN "Aggressive"
  ELSE "Ultra-Aggressive"

\* the if/elif chain on the normalized score
ProfileOf(score) ==
  IF score <= 25 * Pt THEN "Ultra-Conservative"
  ELSE IF score <= 40 * Pt THEN "Conservative"
  ELSE IF score <= 60 * Pt THEN "Moderate"
  ELSE IF score <= 75 * Pt THEN "Moderate-Aggressive"
  ELSE IF score <= 90 * Pt THEN "Aggressive"
  ELSE "Ultra-Aggressive"

RecommendationStrict(score) ==
  IF score > 70 * Pt THEN "invest in equity > debt > gold"
  ELSE IF score > 40 * Pt THEN "invest in debt > equity > gold"
  ELSE "invest in debt > gold > equity"

\* the conditional expression that picks the recommendation string
Recommendation(score) ==
  IF score >= 70 * Pt THEN "invest in equity > debt > gold"
  ELSE IF score >= 40 * Pt THEN "invest in debt > equity > gold"
  ELSE "invest in debt > gold > equity"

\* "# Normalize & Profile" and the recommendation
NormalizeSection(f, d, W) ==
  LET score == round2(Min(100 * Pt, Max(0, f.score)))
  IN  [f EXCEPT
         !.score = score,
         !.profile = ProfileOf(score),
         !.recommendation = Recommendation(score)]

\* insurance_sub after the fallback on the insurance object
insurance_sub(d) ==
  LET s == get_insurance_score(d.insurance_amount)
  IN  IF s = None /\ Present(d.insurance)
      THEN IF Val(d.insurance).has_health /\ Val(d.insurance).has_life THEN Some(80 * Pt)
           ELSE IF Val(d.insurance).has_health \/ Val(d.insurance).has_life THEN Some(50 * Pt)
           ELSE Some(30 * Pt)
      ELSE s

InsuranceSectionWeighted(f, d, W) ==
  LET s == insurance_sub(d)
  IN  [f EXCEPT
         !.insurance_sub = s,
         !.factors = IF Truthy(s)
                     THEN Append(@, Factor("insurance", Val(s), None, None))
                     ELSE @,
         !.score = IF Truthy(s) THEN Min(100 * Pt, @ + Weighted(Val(s), 10)) ELSE @]

\* "# Optional insurance"
InsuranceSection(f, d, W) ==
  LET s == insurance_sub(d)
  IN  [f EXCEPT
         !.insurance_sub = s,
         !.factors = IF Truthy(s)
                     THEN Append(@, Factor("insurance", Val(s), None, None))
                     ELSE @]

DependantsSection(f, d, W) ==
  LET s == get_dependants_score(d.dependants)
  IN  [f EXCEPT
         !.dependants_sub = s,
         !.factors = IF Truthy(s)
                     THEN Append(@, Factor("dependants", Val(s), None, None))
                     ELSE @]

\* the dict of the return statement
ResultOf(f) ==
  [score |-> f.score, profile |-> f.profile,
   recommendation |-> f.recommendation, factors |-> f.factors]

\* one call run from entry to return with nothing else running;
\* None when the call raises
classify_investor(d) ==
  LET f1 == AgeSection(Frame0, d, Weights0)
      f2 == FinancialSection(f1, d, Weights0)
      f3 == RiskSection(f2, d, Weights0)
      f4 == TimeSection(f3, d, Weights0)
      f5 == ReturnSection(f4, d, Weights0)
      f6 == NormalizeSection(f5, d, Weights0)
      f7 == InsuranceSection(f6, d, Weights0)
      f8 == DependantsSection(f7, d, Weights0)
  IN  IF FinancialRaises(d) \/ RiskRaises(d) THEN None ELSE Some(ResultOf(f8))

\* ------------------------------------------------------------- inputs
EmptyProfile ==
  [age |-> None, monthly_income |-> None, monthly_emi |-> None,
   emergency_fund_months |-> None, emergency_fund_amount |-> None,
   monthly_expenses |-> None, insurance |-> None, insurance_amount |-> None,
   dependants |-> None, risk_attitude |-> None, investment_knowledge |-> None,
   drawdown_reaction |-> None, risk_tolerance |-> None, time_horizon |-> None,
   return_expectation |-> None]

\* the profile the form of src/front.py submits by default, without its insurance
ExampleProfile ==
  [EmptyProfile EXCEPT
     !.age = Some(28), !.monthly_income = Some(120000), !.monthly_emi = Some(15000),
     !.emergency_fund_months = Some(8), !.dependants = Some(1),
     !.risk_attitude = Some(3), !.investment_knowledge = Some(3),
     !.drawdown_reaction = Some("wait")]

Opt(S) == {None} \cup {Some(v) : v \in S}

AgeVals == Opt({-1, 0, 1, 25, 26, 35, 36, 45, 46, 55, 56, 65, 66})
TimeVals == Opt({-1, 0, 3, 4, 7, 8})
ReturnVals == Opt({0, 79, 80, 119, 120, 149, 150})
IncomeVals ==
  Opt({-20000, 0, 1, 19999, 20000, 49999, 50000, 99999, 100000, 499999, 500000,
       999999, 1000000, 1499999, 1500000, 2399999, 2400000, 4999999, 5000000,
       7499999, 7500000, 9999999, 10000000})
EmiVals == Opt({-1, 0, 1, 999, 1000, 2999, 3000, 4999, 5000, 9999, 10000})
MonthsVals == Opt({0, 6, 7, 9, 10, 12, 13, 16, 17})
AmountVals == Opt({-1, 0, 30, 31, 45, 46, 60, 61, 84, 85})
ExpensesVals == Opt({-10, 0, 10})
LikertVals == Opt((-1)..MaxLikertInput)
DrawdownVals == Opt({"sell", "wait", "buy_more"})
ToleranceVals == Opt({"conservative", "moderate", "aggressive"})
InsuranceAmountVals ==
  Opt({-1, 0, 1, 499999, 500000, 2499999, 2500000, 9999999, 10000000,
       49999999, 50000000})
InsuranceVals == Opt([has_health : BOOLEAN, has_life : BOOLEAN])
DependantsVals == Opt({-1, 0, 1, 2, 3, 5, 6, 8, 9})

Bases == {EmptyProfile, ExampleProfile}

\* each factor at its extremes, all combinations
Grid ==
  {[EmptyProfile EXCEPT
      !.age = a, !.monthly_income = i, !.monthly_emi = e,
      !.emergency_fund_months = m, !.risk_tolerance = r, !.time_horizon = t,
      !.return_expectation = x, !.insurance_amount = n, !.dependants = k] :
     a \in Opt({20, 50, 70}), i \in Opt({120000, 10000000}), e \in Opt({15000}),
     m \in Opt({8, 17}), r \in ToleranceVals, t \in Opt({2, 10}),
     x \in Opt({50, 130, 200}), n \in Opt({1000000}), k \in Opt({1})}

\* every boundary of one group of fields, on each base profile
AgeSweep ==
  {[b EXCEPT !.age = a, !.time_horizon = t, !.return_expectation = x] :
     b \in Bases, a \in AgeVals, t \in TimeVals, x \in ReturnVals}
IncomeSweep ==
  {[b EXCEPT !.monthly_income = i, !.monthly_emi = e] :
     b \in Bases, i \in IncomeVals, e \in EmiVals}
EmergencySweep ==
  {[b EXCEPT !.emergency_fund_months = m, !.emergency_fund_amount = a,
             !.monthly_expenses = x] :
     b \in Bases, m \in MonthsVals, a \in AmountVals, x \in ExpensesVals}
RiskSweep ==
  {[b EXCEPT !.risk_tolerance = t, !.risk_attitude = a,
             !.investment_knowledge = k, !.drawdown_reaction = r] :
     b \in Bases, t \in ToleranceVals, a \in LikertVals, k \in LikertVals,
     r \in DrawdownVals}
InsuranceSweep ==
  {[b EXCEPT !.insurance_amount = n, !.insurance = i, !.dependants = k] :
     b \in Bases, n \in InsuranceAmountVals, i \in InsuranceVals,
     k \in DependantsVals}

Profiles ==
  Grid \cup AgeSweep \cup IncomeSweep \cup EmergencySweep \cup RiskSweep
       \cup InsuranceSweep

\* the profiles of the concurrent callers
ConcProfiles ==
  {EmptyProfile,
   ExampleProfile,
   [ExampleProfile EXCEPT !.age = Some(70), !.risk_tolerance = Some("conservative"),
                          !.insurance = Some([has_health |-> TRUE, has_life |-> FALSE])],
   [EmptyProfile EXCEPT !.age = Some(20), !.monthly_income = Some(10000000),
                        !.emergency_fund_amount = Some(85), !.monthly_expenses = Some(10),
                        !.risk_tolerance = Some("aggressive"), !.time_horizon = Some(10),
                        !.return_expectation = Some(200), !.insurance_amount = Some(0)]}

\* ------------------------------------------------------- state machine
StoreShared(fr, p, f) == [q \in DOMAIN fr |-> f]

\* the locals of call p live in p's own frame
Store(fr, p, f) == [fr EXCEPT ![p] = f]

\* one request in flight: call 1 runs, the other callers never start
Init ==
  /\ \E d \in Profiles : data = [p \in Calls |-> IF p = 1 THEN d ELSE EmptyProfile]
  /\ pc = [p \in Calls |-> IF p = 1 THEN "age" ELSE "idle"]
  /\ frame = [p \in Calls |-> Frame0]
  /\ result = [p \in Calls |-> None]
  /\ WEIGHTS = Weights0

\* every caller has a request in flight
InitConc ==
  /\ data \in [Calls -> ConcProfiles]
  /\ pc = [p \in Calls |-> "age"]
  /\ frame = [p \in Calls |-> Frame0]
  /\ result = [p \in Calls |-> None]
  /\ WEIGHTS = Weights0

Goto(p, label) == pc' = [pc EXCEPT ![p] = label]

Age(p) ==
  /\ pc[p] = "age"
  /\ frame' = Store(frame, p, AgeSection(frame[p], data[p], WEIGHTS))
  /\ Goto(p, "financial")
  /\ UNCHANGED <<data, result, WEIGHTS>>

Financial(p) ==
  /\ pc[p] = "financial"
  /\ IF FinancialRaises(data[p])
     THEN Goto(p, "failed") /\ UNCHANGED frame
     ELSE /\ frame' = Store(frame, p, FinancialSection(frame[p], data[p], WEIGHTS))
          /\ Goto(p, "risk")
  /\ UNCHANGED <<data, result, WEIGHTS>>

Risk(p) ==
  /\ pc[p] = "risk"
  /\ IF RiskRaises(data[p])
     THEN Goto(p, "failed") /\ UNCHANGED frame
     ELSE /\ frame' = Store(frame, p, RiskSection(frame[p], data[p], WEIGHTS))
          /\ Goto(p, "time_horizon")
  /\ UNCHANGED <<data, result, WEIGHTS>>

TimeHorizon(p) ==
  /\ pc[p] = "time_horizon"
  /\ frame' = Store(frame, p, TimeSection(frame[p], data[p], WEIGHTS))
  /\ Goto(p, "return_expectation")
  /\ UNCHANGED <<data, result, WEIGHTS>>

ReturnExpectation(p) ==
  /\ pc[p] = "return_expectation"
  /\ frame' = Store(frame, p, ReturnSection(frame[p], data[p], WEIGHTS))
  /\ Goto(p, "normalize")
  /\ UNCHANGED <<data, result, WEIGHTS>>

Normalize(p) ==
  /\ pc[p] = "normalize"
  /\ frame' = Store(frame, p, NormalizeSection(frame[p], data[p], WEIGHTS))
  /\ Goto(p, "insurance")
  /\ UNCHANGED <<data, result, WEIGHTS>>

Insurance(p) ==
  /\ pc[p] = "insurance"
  /\ frame' = Store(frame, p, InsuranceSection(frame[p], data[p], WEIGHTS))
  /\ Goto(p, "dependants")
  /\ UNCHANGED <<data, result, WEIGHTS>>

Dependants(p) ==
  /\ pc[p] = "dependants"
  /\ frame' = Store(frame, p, DependantsSection(frame[p], data[p], WEIGHTS))
  /\ Goto(p, "return")
  /\ UNCHANGED <<data, result, WEIGHTS>>

Return(p) ==
  /\ pc[p] = "return"
  /\ result' = [result EXCEPT ![p] = Some(ResultOf(frame[p]))]
  /\ Goto(p, "done")
  /\ UNCHANGED <<data, frame, WEIGHTS>>

Step(p) ==
  \/ Age(p)
  \/ Financial(p)
  \/ Risk(p)
  \/ TimeHorizon(p)
  \/ ReturnExpectation(p)
  \/ Normalize(p)
  \/ Insurance(p)
  \/ Dependants(p)
  \/ Return(p)

Next == \E p \in Calls : Step(p)

Spec == Init /\ [][Next]_vars

SpecConc == InitConc /\ [][Next]_vars

\* ------------------------------------------------------ derived state
Running(p) == pc[p] \notin {"idle", "done", "failed"}
Done(p) == pc[p] = "done"
Res(p) == Val(result[p])

\* the interleaved run of one caller is the call run alone
SingleCallIsSequential ==
  \A p \in Calls : Done(p) => result[p] = classify_investor(data[p])

\* ------------------------------------------------------------- claims
\* pc labels after which the locals of a section are set
AfterFinancial ==
  {"risk", "time_horizon", "return_expectation", "normalize", "insurance",
   "dependants", "return", "done"}
AfterRisk == AfterFinancial \ {"risk"}

SixProfiles ==
  {"Ultra-Conservative", "Conservative", "Moderate", "Moderate-Aggressive",
   "Aggressive", "Ultra-Aggressive"}

\* C1: every returned score lies in [0,100], the profile label is one of the
\* six names, and it is the label of the bracket the score falls in
\* (<=25, <=40, <=60, <=75, <=90, else).
C1_ScoreAndProfile ==
  \A p \in Calls : Done(p) =>
    LET r == Res(p)
    IN  /\ r.score >= 0
        /\ r.score <= 100 * Pt
        /\ r.profile \in SixProfiles
        /\ (r.profile = "Ultra-Conservative") <=> (r.score <= 25 * Pt)
        /\ (r.profile = "Conservative") <=> (25 * Pt < r.score /\ r.score <= 40 * Pt)
        /\ (r.profile = "Moderate") <=> (40 * Pt < r.score /\ r.score <= 60 * Pt)
        /\ (r.profile = "Moderate-Aggressive") <=> (60 * Pt < r.score /\ r.score <= 75 * Pt)
        /\ (r.profile = "Aggressive") <=> (75 * Pt < r.score /\ r.score <= 90 * Pt)
        /\ (r.profile = "Ultra-Aggressive") <=> (90 * Pt < r.score)

\* a call has returned a score that sits exactly on a bracket boundary
C1_Witness ==
  \E p \in Calls : Done(p) /\ Res(p).score = 60 * Pt /\ Res(p).profile = "Moderate"

\* C2 (as stated): the example profile yields emergency-fund score 60,
\* financial_stability 65, risk_tolerance 50 (mean of 45, 45, 60), score 64.0,
\* profile "Moderate", recommendation "debt > equity > gold".
C2_ExampleAsStated ==
  \A p \in Calls : Done(p) /\ data[p] = ExampleProfile =>
    /\ frame[p].emergency_score = 60 * Pt
    /\ frame[p].financial_sub = 65 * Pt
    /\ frame[p].risk_subs = <<45 * Pt, 45 * Pt, 60 * Pt>>
    /\ frame[p].risk_tolerance_sub = 50 * Pt
    /\ Res(p).score = 64 * Pt
    /\ Res(p).profile = "Moderate"
    /\ Res(p).recommendation = "debt > equity > gold"

\* C2 (amended): the example profile yields age score 75, income score 60,
\* debt score 75, emergency-fund score 50, financial_stability 185/3 (reported
\* as 61.67), risk_tolerance 60 (mean of 60, 60, 60), time_horizon 65,
\* return_expectation 60, score 65.0, profile "Moderate-Aggressive",
\* recommendation "invest in debt > equity > gold".
C2_ExampleAmended ==
  \A p \in Calls : Done(p) /\ data[p] = ExampleProfile =>
    /\ frame[p].age_sub = 75 * Pt
    /\ frame[p].income_score = 60 * Pt
    /\ frame[p].debt_score = 75 * Pt
    /\ frame[p].emergency_score = 50 * Pt
    /\ 3 * frame[p].financial_sub = 185 * Pt
    /\ 100 * Res(p).factors[2].subscore = 6167 * Pt
    /\ frame[p].risk_subs = <<60 * Pt, 60 * Pt, 60 * Pt>>
    /\ frame[p].risk_tolerance_sub = 60 * Pt
    /\ frame[p].time_sub = 65 * Pt
    /\ frame[p].return_sub = 60 * Pt
    /\ Res(p).score = 65 * Pt
    /\ Res(p).profile = "Moderate-Aggressive"
    /\ Res(p).recommendation = "invest in debt > equity > gold"

\* the example profile has been classified
C2_Witness == \E p \in Calls : Done(p) /\ data[p] = ExampleProfile

\* C3 (as stated): the recommendation is "equity > debt > gold" for score >= 70,
\* "debt > equity > gold" for 40 <= score < 70, "debt > gold > equity" below 40.
C3_RecommendationAsStated ==
  \A p \in Calls : Done(p) =>
    Res(p).recommendation =
      IF Res(p).score >= 70 * Pt THEN "equity > debt > gold"
      ELSE IF Res(p).score >= 40 * Pt THEN "debt > equity > gold"
      ELSE "debt > gold > equity"

\* C3 (amended): the recommendation is "invest in equity > debt > gold" for
\* score >= 70, "invest in debt > equity > gold" for 40 <= score < 70 and
\* "invest in debt > gold > equity" below 40, and no other string is returned.
C3_RecommendationAmended ==
  \A p \in Calls : Done(p) =>
    /\ Res(p).score >= 70 * Pt => Res(p).recommendation = "invest in equity > debt > gold"
    /\ Res(p).score >= 40 * Pt /\ Res(p).score < 70 * Pt
         => Res(p).recommendation = "invest in debt > equity > gold"
    /\ Res(p).score < 40 * Pt => Res(p).recommendation = "invest in debt > gold > equity"

\* a call has returned a score of exactly 70
C3_Witness ==
  \E p \in Calls : Done(p) /\ Res(p).score = 70 * Pt
                           /\ Res(p).recommendation = "invest in equity > debt > gold"

\* C4: with monthly_income 0 or absent the debt score is 30 for every
\* monthly_emi; with monthly_income > 0 it is the table applied to
\* monthly_emi / monthly_income * 100.
C4_DebtScore ==
  \A p \in Calls : pc[p] \in AfterFinancial =>
    LET d == data[p]
        emi == IF d.monthly_emi = None THEN 0 ELSE Val(d.monthly_emi)
    IN  /\ (d.monthly_income = None \/ d.monthly_income = Some(0))
             => frame[p].debt_score = 30 * Pt
        /\ (d.monthly_income # None /\ Val(d.monthly_income) > 0)
             => frame[p].debt_score =
                  IF 100 * emi < 5 * Val(d.monthly_income) THEN 90 * Pt
                  ELSE IF 100 * emi < 15 * Val(d.monthly_income) THEN 75 * Pt
                  ELSE IF 100 * emi < 25 * Val(d.monthly_income) THEN 60 * Pt
                  ELSE IF 100 * emi < 50 * Val(d.monthly_income) THEN 45 * Pt
                  ELSE 30 * Pt

\* C5: for every supplied age, time_horizon and return_expectation the
\* reported subscore is the threshold table applied to the supplied value;
\* the defaults are used only when the field is absent.
C5_SuppliedValues ==
  \A p \in Calls : Done(p) =>
    LET d == data[p]
        f == Res(p).factors
    IN  /\ f[1].subscore =
             IF d.age = None THEN 75 * Pt
             ELSE IF Val(d.age) <= 25 THEN 90 * Pt
             ELSE IF Val(d.age) <= 35 THEN 75 * Pt
             ELSE IF Val(d.age) <= 45 THEN 60 * Pt
             ELSE IF Val(d.age) <= 55 THEN 40 * Pt
             ELSE IF Val(d.age) <= 65 THEN 20 * Pt
             ELSE 10 * Pt
        /\ f[4].subscore =
             IF d.time_horizon = None THEN 65 * Pt
             ELSE IF Val(d.time_horizon) <= 3 THEN 35 * Pt
             ELSE IF Val(d.time_horizon) <= 7 THEN 65 * Pt
             ELSE 90 * Pt
        /\ f[5].subscore =
             IF d.return_expectation = None THEN 60 * Pt
             ELSE IF Val(d.return_expectation) < 80 THEN 35 * Pt
             ELSE IF Val(d.return_expectation) < 120 THEN 60 * Pt
             ELSE IF Val(d.return_expectation) < 150 THEN 75 * Pt
             ELSE 90 * Pt

\* the Likert values the claim gives a score to, 0 counting as not supplied
LikertInRange(x) == x = None \/ Val(x) \in 0..5
LikertCount(x) == IF x = None \/ Val(x) = 0 THEN 0 ELSE 1
LikertPoints(x) == IF x = None \/ Val(x) = 0 THEN 0 ELSE (15 + 15 * Val(x)) * Pt
DrawdownCount(x) == IF x = None THEN 0 ELSE 1
DrawdownPoints(x) ==
  IF x = None THEN 0
  ELSE IF Val(x) = "sell" THEN 30 * Pt
  ELSE IF Val(x) = "wait" THEN 60 * Pt
  ELSE 90 * Pt

\* C6: the risk_tolerance subscore is the label's score (30, 60, 90) when
\* risk_tolerance is supplied, whatever the other three fields hold; otherwise
\* the mean of the scores of the supplied ones among risk_attitude,
\* investment_knowledge (1..5 -> 30,45,60,75,90, 0 counting as not supplied)
\* and drawdown_reaction (30, 60, 90); and exactly 60 when none is supplied.
C6_RiskTolerance ==
  \A p \in Calls : pc[p] \in AfterRisk =>
    LET d == data[p]
        sub == frame[p].risk_tolerance_sub
        cnt == LikertCount(d.risk_attitude) + LikertCount(d.investment_knowledge)
                 + DrawdownCount(d.drawdown_reaction)
        tot == LikertPoints(d.risk_attitude) + LikertPoints(d.investment_knowledge)
                 + DrawdownPoints(d.drawdown_reaction)
    IN  /\ d.risk_tolerance = Some("conservative") => sub = 30 * Pt
        /\ d.risk_tolerance = Some("moderate") => sub = 60 * Pt
        /\ d.risk_tolerance = Some("aggressive") => sub = 90 * Pt
        /\ (d.risk_tolerance = None /\ LikertInRange(d.risk_attitude)
              /\ LikertInRange(d.investment_knowledge))
             => IF cnt = 0 THEN sub = 60 * Pt ELSE cnt * sub = tot
        /\ frame[p].factors[3].name = "risk_tolerance"
        /\ frame[p].factors[3].subscore = sub

\* a mean of two supplied scores, the third field holding 0
C6_Witness ==
  \E p \in Calls :
    /\ pc[p] \in AfterRisk
    /\ data[p].risk_tolerance = None
    /\ data[p].risk_attitude = Some(0)
    /\ data[p].investment_knowledge = Some(2)
    /\ data[p].drawdown_reaction = Some("sell")
    /\ 2 * frame[p].risk_tolerance_sub = 75 * Pt

\* the profile without its insurance and dependants inputs
WithoutAdvisory(d) ==
  [d EXCEPT !.insurance_amount = None, !.insurance = None, !.dependants = None]

\* C7: insurance_amount, insurance and dependants never change the score, the
\* profile label, the recommendation or the five weighted factor entries: the
\* call returns what the same profile without the three fields returns.
C7_AdvisoryOnly ==
  \A p \in Calls : Done(p) =>
    LET r == Res(p)
        r0 == Val(classify_investor(WithoutAdvisory(data[p])))
    IN  /\ r.score = r0.score
        /\ r.profile = r0.profile
        /\ r.recommendation = r0.recommendation
        /\ Len(r.factors) >= 5
        /\ SubSeq(r.factors, 1, 5) = r0.factors

\* a call with all three advisory inputs supplied has returned both entries
C7_Witness ==
  \E p \in Calls :
    /\ Done(p)
    /\ data[p].insurance_amount # None
    /\ data[p].insurance # None
    /\ data[p].dependants # None
    /\ Len(Res(p).factors) = 7

WeightedNames ==
  <<"age", "financial_stability", "risk_tolerance", "time_horizon",
    "return_expectation">>

\* the five weighted entries, in order, each with its weight
FiveWeighted(f) ==
  /\ Len(f) >= 5
  /\ \A i \in 1..5 :
       /\ f[i].name = WeightedNames[i]
       /\ f[i].weight = Some(Weights0[WeightedNames[i]])
       /\ f[i].weighted # None

InsuranceTable(v) ==
  IF v = 0 THEN 30 * Pt
  ELSE IF v < 500000 THEN 40 * Pt
  ELSE IF v < 2500000 THEN 60 * Pt
  ELSE IF v < 10000000 THEN 75 * Pt
  ELSE IF v < 50000000 THEN 90 * Pt
  ELSE 100 * Pt

DependantsTable(v) ==
  IF v = 0 THEN 90 * Pt
  ELSE IF v <= 2 THEN 75 * Pt
  ELSE IF v <= 5 THEN 60 * Pt
  ELSE IF v <= 8 THEN 45 * Pt
  ELSE 30 * Pt

DependantsEntry(d) ==
  IF d.dependants = None THEN <<>>
  ELSE <<Factor("dependants", DependantsTable(Val(d.dependants)), None, None)>>

\* C8 (as stated): the factor list is the five weighted factors in order, then
\* an insurance entry exactly when insurance_amount is supplied, then a
\* dependants entry exactly when dependants is supplied, both with null weight
\* and null weighted contribution and the subscore of their table.
C8_FactorsAsStated ==
  \A p \in Calls : Done(p) =>
    LET d == data[p]
        f == Res(p).factors
    IN  /\ FiveWeighted(f)
        /\ SubSeq(f, 6, Len(f)) =
             (IF d.insurance_amount = None THEN <<>>
              ELSE <<Factor("insurance", InsuranceTable(Val(d.insurance_amount)),
                            None, None)>>)
             \o DependantsEntry(d)

\* C8 (amended): the insurance entry is present exactly when insurance_amount
\* or the insurance object is supplied; its subscore is the insurance table of
\* insurance_amount when that is supplied, and otherwise 80 when the insurance
\* object has both has_health and has_life, 50 when it has one, 30 when none.
C8_FactorsAmended ==
  \A p \in Calls : Done(p) =>
    LET d == data[p]
        f == Res(p).factors
    IN  /\ FiveWeighted(f)
        /\ SubSeq(f, 6, Len(f)) =
             (IF d.insurance_amount # None
              THEN <<Factor("insurance", InsuranceTable(Val(d.insurance_amount)),
                            None, None)>>
              ELSE IF d.insurance = None THEN <<>>
              ELSE IF Val(d.insurance).has_health /\ Val(d.insurance).has_life
              THEN <<Factor("insurance", 80 * Pt, None, None)>>
              ELSE IF Val(d.insurance).has_health \/ Val(d.insurance).has_life
              THEN <<Factor("insurance", 50 * Pt, None, None)>>
              ELSE <<Factor("insurance", 30 * Pt, None, None)>>)
             \o DependantsEntry(d)

\* an insurance entry returned with insurance_amount absent, and a dependants entry
C8_Witness ==
  \E p \in Calls :
    /\ Done(p)
    /\ data[p].insurance_amount = None
    /\ data[p].insurance # None
    /\ data[p].dependants # None
    /\ Len(Res(p).factors) = 7
    /\ Res(p).factors[6].name = "insurance"

\* C9: classify_investor is total: no call fails, every call that has not
\* returned can take its next step, and a call that returned has a result.
C9_Total ==
  \A p \in Calls :
    /\ pc[p] # "failed"
    /\ Running(p) => ENABLED Step(p)
    /\ Done(p) => result[p] # None

\* a call returned for a profile with no income, an emergency fund amount
\* without expenses and no risk field
C9_Witness ==
  \E p \in Calls :
    /\ Done(p)
    /\ data[p].monthly_income \in {None, Some(0)}
    /\ data[p].emergency_fund_amount # None
    /\ data[p].monthly_expenses \in {None, Some(0)}
    /\ data[p].risk_tolerance = None
    /\ data[p].risk_attitude = None
    /\ data[p].investment_knowledge = None
    /\ data[p].drawdown_reaction = None

\* C10: interleaved calls never interfere: each call returns what it returns
\* when run alone on its input, calls on identical input return identical
\* results, and no step changes an input record or the WEIGHTS table.
C10_NoInterference ==
  /\ [](\A p \in Calls : Done(p) => result[p] = classify_investor(data[p]))
  /\ [](\A p, q \in Calls :
          Done(p) /\ Done(q) /\ data[p] = data[q] => result[p] = result[q])
  /\ [][data' = data /\ WEIGHTS' = WEIGHTS]_vars

\* one call has returned while another, on a different input, is in mid-flight
C10_Witness ==
  \E p, q \in Calls :
    /\ Done(p)
    /\ pc[q] = "time_horizon"
    /\ data[p] # data[q]
    /\ result[p] = classify_investor(data[p])

\* the weighted sum of the five subscores a call has computed
WeightedSum(f) ==
  Weighted(f.age_sub, 25) + Weighted(f.financial_sub, 30)
    + Weighted(f.risk_tolerance_sub, 20) + Weighted(f.time_sub, 15)
    + Weighted(f.return_sub, 10)

\* C11: the weighted sum before clamping lies between 26.25 and 91 inclusive,
\* so the clamp to [0,100] (and the rounding to 2 decimals) leaves it as it
\* is, the returned score is that sum, and "Ultra-Conservative" (score <= 25)
\* is never returned.
C11_SumRange ==
  \A p \in Calls :
    /\ pc[p] = "normalize" =>
         /\ frame[p].score = WeightedSum(frame[p])
         /\ 100 * frame[p].score >= 2625 * Pt
         /\ frame[p].score <= 91 * Pt
         /\ Min(100 * Pt, Max(0, frame[p].score)) = frame[p].score
    /\ Done(p) =>
         /\ Res(p).score = WeightedSum(frame[p])
         /\ 100 * Res(p).score >= 2625 * Pt
         /\ Res(p).score <= 91 * Pt
         /\ Res(p).profile # "Ultra-Conservative"

\* a call has returned the smallest sum, 26.25, labelled "Conservative"
C11_Witness ==
  \E p \in Calls :
    /\ Done(p)
    /\ 100 * Res(p).score = 2625 * Pt
    /\ Res(p).profile = "Conservative"

====
